---- MODULE Spec2Model ----
(***************************************************************************)
(* The exit endpoint of llarp (src/llarp/handlers/exit.cpp): the address   *)
(* pool, the identity map, the session registry and the tick, as a state   *)
(* machine whose actions are the public operations of ExitEndpoint.        *)
(***************************************************************************)
EXTENDS Integers, Sequences, FiniteSets, TLC

\* ------------------------------------------------------------------ bounds
\* width of an address in bits (32 in the program)
AddrBits == 3
\* remote public keys 1..NumKeys
NumKeys == 2
\* path ids 1..NumPaths
NumPaths == 2
\* live exit sessions (heap cells an Endpoint can occupy)
MaxSessions == 2
\* the router clock runs 0..MaxTime
MaxTime == 1
\* packets the inbound queue holds between two flushes
MaxQueue == 2

Keys == 1..NumKeys
\* a default-constructed (all zero) llarp::PubKey, what operator[] inserts
ZeroKey == 0
PathIDs == 1..NumPaths
SessionIDs == 1..MaxSessions
\* nullptr, for a llarp::exit::Endpoint *
NullEp == 0
\* "no key" / "no address" in the record of the last call
NoKey == 0 - 1
NoIP == 0 - 1
\* std::numeric_limits< llarp_time_t >::max()
TimeMax == MaxTime + 1

RECURSIVE Pow2(_)
Pow2(n) == IF n = 0 THEN 1 ELSE 2 * Pow2(n - 1)

\* bitwise and / or on AddrBits-wide unsigned integers
RECURSIVE BitAnd(_, _, _)
BitAnd(a, b, n) ==
  IF n = 0 THEN 0
  ELSE (IF a % 2 = 1 /\ b % 2 = 1 THEN 1 ELSE 0) + 2 * BitAnd(a \div 2, b \div 2, n - 1)

RECURSIVE BitOr(_, _, _)
BitOr(a, b, n) ==
  IF n = 0 THEN 0
  ELSE (IF a % 2 = 1 \/ b % 2 = 1 THEN 1 ELSE 0) + 2 * BitOr(a \div 2, b \div 2, n - 1)

BitNot(a) == (Pow2(AddrBits) - 1) - a

\* netmask_ipv4_bits(n): the n high bits set
NetmaskBits(n) == Pow2(AddrBits) - Pow2(AddrBits - n)

\* ------------------------------------------------------- container helpers
\* std::map / std::unordered_map as a function with a finite domain
EmptyMap == [x \in {} |-> 0]
Erase(f, k) == [x \in DOMAIN f \ {k} |-> f[x]]
Put(f, k, v) == [x \in DOMAIN f \cup {k} |-> IF x = k THEN v ELSE f[x]]
\* emplace / insert: no effect when the key is present
Emplace(f, k, v) == IF k \in DOMAIN f THEN f ELSE Put(f, k, v)

InsertAt(s, i, e) == SubSeq(s, 1, i) \o <<e>> \o SubSeq(s, i + 1, Len(s))
RemoveAt(s, i) == SubSeq(s, 1, i - 1) \o SubSeq(s, i + 1, Len(s))

\* ------------------------------------------------------------------- state
VARIABLES
  m_IfAddr,        \* gateway address
  m_OurRange,      \* [addr, netmask_bits]
  m_NextAddr,      \* last address handed out by the counter
  m_HigestAddr,    \* highest address of the range
  m_PermitExit,    \* the "exit" option
  now,             \* Router()->Now()
  m_KeyToIP,       \* PubKey -> address
  m_IPToKey,       \* address -> PubKey
  m_IPActivity,    \* address -> time of last activity
  m_SNodeKeys,     \* set of PubKey
  m_SNodeSessions, \* RouterID -> SNodeSession
  m_ActiveExits,   \* multimap PubKey -> Endpoint, in iteration order
  m_Paths,         \* PathID -> PubKey
  m_ChosenExits,   \* PubKey -> Endpoint * (a session id, or NullEp)
  m_InetToNetwork, \* queue of packets from the tun device (their dst addresses)
  last             \* the last call: its arguments and what it returned

cfgVars == <<m_IfAddr, m_OurRange, m_HigestAddr, m_PermitExit>>
vars == <<m_IfAddr, m_OurRange, m_NextAddr, m_HigestAddr, m_PermitExit, now,
          m_KeyToIP, m_IPToKey, m_IPActivity, m_SNodeKeys, m_SNodeSessions,
          m_ActiveExits, m_Paths, m_ChosenExits, m_InetToNetwork, last>>

\* a dns::Message without answers
NoReply == [kind |-> "none", name |-> <<>>, ip |-> NoIP]

\* the record of a call: its arguments, what it returned and what it logged
\* (kicked: the key logged as kicked off the exit; fresh: a new mapping was
\* made; out: what Flush did with each packet; qtype, qname, reply: the first
\* question of a DNS message and the message handed to reply(); ticked: the
\* sessions whose Tick(now) was called)
Call(op) ==
  [op |-> op, pk |-> NoKey, path |-> 0, want |-> FALSE, prev |-> FALSE,
   ok |-> FALSE, ip |-> NoIP, ep |-> NullEp, kicked |-> NoKey, fresh |-> FALSE,
   dead |-> {}, out |-> <<>>, qtype |-> "", qname |-> <<>>, reply |-> NoReply,
   ticked |-> {}]

\* ---------------------------------------------------------- configuration
\* SetOption("ifaddr", "<host>/<prefix>")
SetOptionIfAddr(host, prefix) ==
  LET mask == NetmaskBits(prefix)
  IN [ifAddr  |-> host,
      range   |-> [addr |-> host, netmask_bits |-> mask],
      next    |-> host,
      highest |-> BitOr(host, BitNot(mask), AddrBits)]

\* the "ifaddr" values of the model: a /32-like range that holds the gateway
\* alone, a /31-like range with one more address, a /30-like range (the
\* spec's 10.0.0.1/30) with two
IfAddrOptions == {<<4, AddrBits>>, <<4, AddrBits - 1>>, <<5, AddrBits - 2>>}

\* IPRange::Contains
Contains(range, ip) ==
  BitAnd(range.addr, range.netmask_bits, AddrBits)
    = BitAnd(ip, range.netmask_bits, AddrBits)

\* ------------------------------------------------- identity map, the pool
\* the part of the endpoint GetIPForIdent and what it calls read and write
St ==
  [keyToIP |-> m_KeyToIP, ipToKey |-> m_IPToKey, ipActivity |-> m_IPActivity,
   nextAddr |-> m_NextAddr, activeExits |-> m_ActiveExits]

HasLocalMappedAddrFor(s, pk) == pk \in DOMAIN s.keyToIP

\* m_KeyToIP[pk] on a key that may be absent reads a zero address
KickIdentOffExit(s, pk) ==
  LET ip == IF pk \in DOMAIN s.keyToIP THEN s.keyToIP[pk] ELSE 0
  IN [s EXCEPT !.keyToIP = Erase(@, pk),
               !.ipToKey = Erase(@, ip),
               !.activeExits = SelectSeq(@, LAMBDA e : e.pk # pk)]

MarkIPActive(s, ip) == [s EXCEPT !.ipActivity = Put(@, ip, now)]

\* the order in which m_IPActivity is iterated
RECURSIVE IPActivityOrder(_)
IPActivityOrder(S) ==
  IF S = {} THEN <<>>
  ELSE LET lo == CHOOSE x \in S : \A y \in S : x <= y
       IN <<lo>> \o IPActivityOrder(S \ {lo})

\* the scan for the oldest activity: [found, min] after entries i.. of order
RECURSIVE OldestScan(_, _, _, _)
OldestScan(act, order, i, acc) ==
  IF i > Len(order) THEN acc
  ELSE OldestScan(act, order, i + 1,
         IF act[order[i]] < acc.min
         THEN [found |-> order[i], min |-> act[order[i]]]
         ELSE acc)

\* returns [s, ip, kicked]
AllocateNewAddress(s) ==
  IF s.nextAddr < m_HigestAddr
  THEN [s |-> [s EXCEPT !.nextAddr = @ + 1], ip |-> s.nextAddr + 1, kicked |-> NoKey]
  ELSE LET found == OldestScan(s.ipActivity, IPActivityOrder(DOMAIN s.ipActivity), 1,
                               [found |-> 0, min |-> TimeMax]).found
           \* m_IPToKey[found] inserts a zero key when found is absent
           s1 == [s EXCEPT !.ipToKey = Emplace(@, found, ZeroKey)]
           pk == s1.ipToKey[found]
       IN [s |-> KickIdentOffExit(s1, pk), ip |-> found, kicked |-> pk]

\* GetIPForIdent without the HasLocalMappedAddrFor test: a mapped key is given
\* a new address on every call
GetIPForIdent_Reallocates(s, pk) ==
  LET a == AllocateNewAddress(s)
  IN [s |-> MarkIPActive([a.s EXCEPT !.keyToIP = Put(@, pk, a.ip),
                                      !.ipToKey = Put(@, a.ip, pk)], a.ip),
      ip |-> a.ip, kicked |-> a.kicked, fresh |-> ~HasLocalMappedAddrFor(s, pk)]

\* returns [s, ip, kicked, fresh]
GetIPForIdent(s, pk) ==
  IF ~HasLocalMappedAddrFor(s, pk)
  THEN LET a == AllocateNewAddress(s)
           s1 == [a.s EXCEPT !.keyToIP = Emplace(@, pk, a.ip)]
           s2 == [s1 EXCEPT !.ipToKey = Emplace(@, a.ip, pk)]
       IN IF pk \in DOMAIN a.s.keyToIP
          THEN [s |-> a.s, ip |-> a.ip, kicked |-> a.kicked, fresh |-> TRUE]
          ELSE IF a.ip \in DOMAIN s1.ipToKey
          THEN [s |-> s1, ip |-> a.ip, kicked |-> a.kicked, fresh |-> TRUE]
          ELSE [s |-> MarkIPActive(s2, a.ip), ip |-> a.ip, kicked |-> a.kicked,
                fresh |-> TRUE]
  ELSE [s |-> MarkIPActive(s, s.keyToIP[pk]), ip |-> s.keyToIP[pk],
        kicked |-> NoKey, fresh |-> FALSE]

\* write a value of St back to the variables
Store(s) ==
  /\ m_KeyToIP' = s.keyToIP
  /\ m_IPToKey' = s.ipToKey
  /\ m_IPActivity' = s.ipActivity
  /\ m_NextAddr' = s.nextAddr
  /\ m_ActiveExits' = s.activeExits

\* -------------------------------------------------------------------- Init
Init ==
  /\ \E o \in IfAddrOptions :
       LET c == SetOptionIfAddr(o[1], o[2])
       IN /\ m_IfAddr = c.ifAddr
          /\ m_OurRange = c.range
          /\ m_NextAddr = c.next
          /\ m_HigestAddr = c.highest
  /\ m_PermitExit \in BOOLEAN
  /\ now = 0
  /\ m_KeyToIP = EmptyMap
  /\ m_IPToKey = EmptyMap
  /\ m_IPActivity = EmptyMap
  /\ m_SNodeKeys = {}
  /\ m_SNodeSessions = EmptyMap
  /\ m_ActiveExits = <<>>
  /\ m_Paths = EmptyMap
  /\ m_ChosenExits = EmptyMap
  /\ m_InetToNetwork = <<>>
  /\ last = Call("init")

\* ----------------------------------------------------------------- actions
\* the router clock advances
AdvanceTime ==
  /\ now < MaxTime
  /\ now' = now + 1
  /\ last' = Call("AdvanceTime")
  /\ UNCHANGED <<cfgVars, m_InetToNetwork, m_NextAddr, m_KeyToIP, m_IPToKey, m_IPActivity, m_SNodeKeys,
                 m_SNodeSessions, m_ActiveExits, m_Paths, m_ChosenExits>>

CallGetIPForIdent(pk) ==
  LET r == GetIPForIdent(St, pk)
  IN /\ Store(r.s)
     /\ last' = [Call("GetIPForIdent") EXCEPT !.pk = pk, !.ip = r.ip,
                   !.kicked = r.kicked, !.fresh = r.fresh]
     /\ UNCHANGED <<cfgVars, m_InetToNetwork, now, m_SNodeKeys, m_SNodeSessions, m_Paths, m_ChosenExits>>

CallKickIdentOffExit(pk) ==
  /\ Store(KickIdentOffExit(St, pk))
  /\ last' = [Call("KickIdentOffExit") EXCEPT !.pk = pk]
  /\ UNCHANGED <<cfgVars, m_InetToNetwork, now, m_SNodeKeys, m_SNodeSessions, m_Paths, m_ChosenExits>>

\* Endpoint::createdAt: the time the session was constructed
EndpointCreatedAt == now

\* std::make_unique< llarp::exit::Endpoint >(pk, path, !wantInternet, ip, this),
\* constructed in heap cell id
NewEndpoint(pk, path, rewriteIP, ip, id) ==
  [pk |-> pk, path |-> path, rewriteIP |-> rewriteIP, ip |-> ip,
   createdAt |-> EndpointCreatedAt, id |-> id]

\* the heap cells (pointer values) of the live exit sessions
LiveIDs(exits) == {exits[i].id : i \in 1..Len(exits)}
\* the cell a new Endpoint is constructed in: the lowest free one
NewCell(exits) ==
  CHOOSE id \in SessionIDs \ LiveIDs(exits) :
    \A other \in SessionIDs \ LiveIDs(exits) : id <= other
SessionsOf(exits, pk) == {i \in 1..Len(exits) : exits[i].pk = pk}
ById(exits, id) == exits[CHOOSE i \in 1..Len(exits) : exits[i].id = id]

\* a multimap iterates equal keys next to each other; the model lists the
\* groups in key order, and a new element goes anywhere in its key's group
GroupPos(exits, pk, pos) ==
  /\ pos <= Len(exits)
  /\ \A j \in 1..pos : exits[j].pk <= pk
  /\ \A j \in (pos + 1)..Len(exits) : exits[j].pk >= pk

\* AllocateNewExit's gate with the test of m_PermitExit left out
ExitRefused_NoGate(wantInternet) == FALSE

\* the permit-exit gate of AllocateNewExit
ExitRefused(wantInternet) == wantInternet /\ ~m_PermitExit

\* MarkedSNodeKeys that marks every admitted key as a service node
MarkedSNodeKeys_Always(pk, prev) == m_SNodeKeys \cup {pk}

\* m_SNodeKeys after admission; prev is
\* Router()->paths.TransitHopPreviousIsRouter(path, pk)
MarkedSNodeKeys(pk, prev) == IF prev THEN m_SNodeKeys \cup {pk} ELSE m_SNodeKeys

\* the new Endpoint gets the cell id and a place pos in the multimap's iteration
AllocateNewExit(pk, path, wantInternet, prev) ==
  IF ExitRefused(wantInternet)
  THEN /\ ~prev
       /\ last' = [Call("AllocateNewExit") EXCEPT !.pk = pk, !.path = path,
                     !.want = wantInternet, !.ok = FALSE]
       /\ UNCHANGED <<cfgVars, m_InetToNetwork, now, m_NextAddr, m_KeyToIP, m_IPToKey, m_IPActivity,
                      m_SNodeKeys, m_SNodeSessions, m_ActiveExits, m_Paths,
                      m_ChosenExits>>
  ELSE \E r \in {GetIPForIdent(St, pk)} :
          /\ Len(r.s.activeExits) < MaxSessions
          /\ \E id \in {NewCell(r.s.activeExits)}, pos \in 0..MaxSessions :
               /\ GroupPos(r.s.activeExits, pk, pos)
               /\ Store([r.s EXCEPT !.activeExits =
                           InsertAt(@, pos, NewEndpoint(pk, path, ~wantInternet, r.ip, id))])
               /\ last' = [Call("AllocateNewExit") EXCEPT !.pk = pk, !.path = path,
                             !.want = wantInternet, !.prev = prev, !.ip = r.ip,
                             !.ep = id, !.kicked = r.kicked, !.fresh = r.fresh,
                             !.ok = HasLocalMappedAddrFor(r.s, pk)]
          /\ m_SNodeKeys' = MarkedSNodeKeys(pk, prev)
          /\ m_Paths' = Put(m_Paths, path, pk)
          /\ UNCHANGED <<cfgVars, m_InetToNetwork, now, m_SNodeSessions, m_ChosenExits>>

\* llarp::exit::SNodeSession(other, QueueSNodePacket bound to ip, ...)
NewSNodeSession(other, ip) == [pk |-> other, ip |-> ip]

\* ObtainServiceNodeIPWrites without the outbound session
ObtainServiceNodeIPWrites_NoSession(other, r) ==
  /\ Store(r.s)
  /\ m_SNodeKeys' = m_SNodeKeys \cup {other}
  /\ m_SNodeSessions' = m_SNodeSessions

\* ObtainServiceNodeIPWrites that makes the outbound session on every call
ObtainServiceNodeIPWrites_AlwaysSession(other, r) ==
  /\ Store(r.s)
  /\ m_SNodeKeys' = m_SNodeKeys \cup {other}
  /\ m_SNodeSessions' = Emplace(m_SNodeSessions, other, NewSNodeSession(other, r.ip))

\* what ObtainServiceNodeIP writes, r being what its GetIPForIdent returned
ObtainServiceNodeIPWrites(other, r) ==
  /\ Store(r.s)
  /\ m_SNodeKeys' = m_SNodeKeys \cup {other}
  /\ m_SNodeSessions' =
       IF other \notin m_SNodeKeys
       THEN Emplace(m_SNodeSessions, other, NewSNodeSession(other, r.ip))
       ELSE m_SNodeSessions

ObtainServiceNodeIP(other) ==
  LET r == GetIPForIdent(St, other)
  IN /\ ObtainServiceNodeIPWrites(other, r)
     /\ last' = [Call("ObtainServiceNodeIP") EXCEPT !.pk = other, !.ip = r.ip,
                   !.kicked = r.kicked, !.fresh = r.fresh]
     /\ UNCHANGED <<cfgVars, m_InetToNetwork, now, m_Paths, m_ChosenExits>>

\* FindEndpointByPath that skips the path index and takes any live session
FindEndpointByPathResults_AnySession(path) ==
  IF m_ActiveExits = <<>> THEN {NullEp}
  ELSE {m_ActiveExits[i].id : i \in 1..Len(m_ActiveExits)}

\* the Endpoint * FindEndpointByPath may return: m_ActiveExits.find(pk) yields
\* any one element of pk's range
FindEndpointByPathResults(path) ==
  IF path \notin DOMAIN m_Paths THEN {NullEp}
  ELSE LET pk == m_Paths[path]
           range == SessionsOf(m_ActiveExits, pk)
       IN IF range = {} THEN {NullEp}
          ELSE {IF m_ActiveExits[i].pk = pk THEN m_ActiveExits[i].id ELSE NullEp :
                  i \in range}

FindEndpointByPath(path) ==
  /\ \E ep \in FindEndpointByPathResults(path) :
       last' = [Call("FindEndpointByPath") EXCEPT !.path = path, !.ep = ep]
  /\ UNCHANGED <<cfgVars, m_InetToNetwork, now, m_NextAddr, m_KeyToIP, m_IPToKey, m_IPActivity,
                 m_SNodeKeys, m_SNodeSessions, m_ActiveExits, m_Paths, m_ChosenExits>>

\* UpdateEndpointPath without the check for a known path: m_Paths[next] = remote
UpdateEndpointPath_Overwrites(remote, next) ==
  /\ m_Paths' = Put(m_Paths, next, remote)
  /\ last' = [Call("UpdateEndpointPath") EXCEPT !.pk = remote, !.path = next,
                !.ok = (next \notin DOMAIN m_Paths)]
  /\ UNCHANGED <<cfgVars, m_InetToNetwork, now, m_NextAddr, m_KeyToIP, m_IPToKey, m_IPActivity,
                 m_SNodeKeys, m_SNodeSessions, m_ActiveExits, m_ChosenExits>>

UpdateEndpointPath(remote, next) ==
  /\ m_Paths' = IF next \in DOMAIN m_Paths THEN m_Paths ELSE Put(m_Paths, next, remote)
  /\ last' = [Call("UpdateEndpointPath") EXCEPT !.pk = remote, !.path = next,
                !.ok = (next \notin DOMAIN m_Paths)]
  /\ UNCHANGED <<cfgVars, m_InetToNetwork, now, m_NextAddr, m_KeyToIP, m_IPToKey, m_IPActivity,
                 m_SNodeKeys, m_SNodeSessions, m_ActiveExits, m_ChosenExits>>

DelEndpointInfo(path) ==
  /\ m_Paths' = Erase(m_Paths, path)
  /\ last' = [Call("DelEndpointInfo") EXCEPT !.path = path]
  /\ UNCHANGED <<cfgVars, m_InetToNetwork, now, m_NextAddr, m_KeyToIP, m_IPToKey, m_IPActivity,
                 m_SNodeKeys, m_SNodeSessions, m_ActiveExits, m_ChosenExits>>

\* the first session of ep's key with ep's local path, in iteration order
RemoveExitIndex(exits, pk, path) ==
  LET hits == {i \in SessionsOf(exits, pk) : exits[i].path = path}
  IN IF hits = {} THEN 0 ELSE CHOOSE i \in hits : \A j \in hits : i <= j

\* ep is a live session (the caller is the Endpoint itself)
RemoveExit(i) ==
  LET ep == m_ActiveExits[i]
      k == RemoveExitIndex(m_ActiveExits, ep.pk, ep.path)
  IN /\ m_ActiveExits' = IF k = 0 THEN m_ActiveExits ELSE RemoveAt(m_ActiveExits, k)
     /\ last' = [Call("RemoveExit") EXCEPT !.pk = ep.pk, !.path = ep.path, !.ep = ep.id]
     /\ UNCHANGED <<cfgVars, m_InetToNetwork, now, m_NextAddr, m_KeyToIP, m_IPToKey, m_IPActivity,
                    m_SNodeKeys, m_SNodeSessions, m_Paths, m_ChosenExits>>

\* PickChosenExits that replaces the chosen exit by a newer one without asking
\* whether the newer one looks dead
RECURSIVE PickChosenExits_NewerEvenIfDead(_, _, _, _)
PickChosenExits_NewerEvenIfDead(exits, dead, i, chosen) ==
  IF i > Len(exits) THEN chosen
  ELSE LET e == exits[i]
       IN PickChosenExits_NewerEvenIfDead(exits, dead, i + 1,
            IF e.pk \in DOMAIN chosen
            THEN IF ById(exits, chosen[e.pk]).createdAt < e.createdAt
                 THEN Put(chosen, e.pk, e.id)
                 ELSE chosen
            ELSE IF e.id \notin dead
            THEN Put(chosen, e.pk, e.id)
            ELSE chosen)

\* the pass of Tick that picks the chosen exits: entries i.. of exits, with
\* dead the sessions whose LooksDead(now) is true
RECURSIVE PickChosenExits(_, _, _, _)
PickChosenExits(exits, dead, i, chosen) ==
  IF i > Len(exits) THEN chosen
  ELSE LET e == exits[i]
       IN PickChosenExits(exits, dead, i + 1,
            IF e.pk \in DOMAIN chosen
            THEN IF ById(exits, chosen[e.pk]).createdAt < e.createdAt
                    /\ e.id \notin dead
                 THEN Put(chosen, e.pk, e.id)
                 ELSE chosen
            ELSE IF e.id \notin dead
            THEN Put(chosen, e.pk, e.id)
            ELSE chosen)

\* the sessions Tick calls Tick(now) on: the exit sessions it walks in its
\* second pass; the pass over m_SNodeSessions only erases
TickedSessions(exits, snodes) == {<<"exit", exits[i].id>> : i \in 1..Len(exits)}

\* snodeExpired, expired: the sessions whose IsExpired(now) is true;
\* dead: the exit sessions whose LooksDead(now) is true
Tick(snodeExpired, expired, dead) ==
  LET exits == SelectSeq(m_ActiveExits, LAMBDA e : e.id \notin expired)
  IN /\ m_SNodeSessions' = [k \in DOMAIN m_SNodeSessions \ snodeExpired |->
                              m_SNodeSessions[k]]
     /\ m_ActiveExits' = exits
     /\ m_ChosenExits' = PickChosenExits(exits, dead, 1, EmptyMap)
     /\ last' = [Call("Tick") EXCEPT !.dead = dead,
                   !.ticked = TickedSessions(exits, m_SNodeSessions')]
     /\ UNCHANGED <<cfgVars, m_InetToNetwork, now, m_NextAddr, m_KeyToIP, m_IPToKey, m_IPActivity,
                    m_SNodeKeys, m_Paths>>

\* ------------------------------------------------------------- packet pump
\* OnInetPacket(buf): the packet is queued when pkt.Load(buf) succeeds
OnInetPacket(dst, loaded) ==
  /\ Len(m_InetToNetwork) < MaxQueue
  /\ m_InetToNetwork' = IF loaded THEN Append(m_InetToNetwork, dst) ELSE m_InetToNetwork
  /\ last' = [Call("OnInetPacket") EXCEPT !.ip = dst, !.ok = loaded]
  /\ UNCHANGED <<cfgVars, now, m_NextAddr, m_KeyToIP, m_IPToKey, m_IPActivity,
                 m_SNodeKeys, m_SNodeSessions, m_ActiveExits, m_Paths, m_ChosenExits>>

\* m_InetToNetwork.Process(visit): the packets handed to visit, in order, and
\* the packets left in the queue
Process(queue) == [visited |-> queue, left |-> <<>>]

\* what Flush did with one packet: upCalled / inCalled say whether
\* QueueUpstreamTraffic / QueueInboundTraffic was called, upOk / inOk what the
\* call returned, ep the Endpoint * read from m_ChosenExits
Outcome(dst, pk, upCalled, upOk, ep, inCalled, inOk) ==
  [dst |-> dst, pk |-> pk, upCalled |-> upCalled, upOk |-> upOk, ep |-> ep,
   inCalled |-> inCalled, inOk |-> inOk]

\* FlushPacket that does not return after the snode session took the packet
FlushPacket_AlsoToExit(chosen, dst, upOk, inOk) ==
  IF dst \notin DOMAIN m_IPToKey
  THEN [chosen |-> chosen, out |-> Outcome(dst, NoKey, FALSE, FALSE, NullEp, FALSE, FALSE)]
  ELSE LET pk == m_IPToKey[dst]
           viaSNode == pk \in m_SNodeKeys /\ pk \in DOMAIN m_SNodeSessions
           chosen1 == Emplace(chosen, pk, NullEp)
           ep == chosen1[pk]
       IN [chosen |-> chosen1,
           out |-> Outcome(dst, pk, viaSNode, viaSNode /\ upOk, ep,
                           ep # NullEp, ep # NullEp /\ inOk)]

\* the visitor Flush passes to Process, for one packet; upOk and inOk are what
\* QueueUpstreamTraffic and QueueInboundTraffic return if they are called, and
\* m_ChosenExits[pk] inserts a null pointer for a key without an entry
FlushPacket(chosen, dst, upOk, inOk) ==
  IF dst \notin DOMAIN m_IPToKey
  THEN [chosen |-> chosen, out |-> Outcome(dst, NoKey, FALSE, FALSE, NullEp, FALSE, FALSE)]
  ELSE LET pk == m_IPToKey[dst]
           viaSNode == pk \in m_SNodeKeys /\ pk \in DOMAIN m_SNodeSessions
           chosen1 == Emplace(chosen, pk, NullEp)
           ep == chosen1[pk]
       IN IF viaSNode /\ upOk
          THEN [chosen |-> chosen, out |-> Outcome(dst, pk, TRUE, TRUE, NullEp, FALSE, FALSE)]
          ELSE [chosen |-> chosen1,
                out |-> Outcome(dst, pk, viaSNode, FALSE, ep,
                                ep # NullEp, ep # NullEp /\ inOk)]

\* the visitor applied to packets i.. of queue
RECURSIVE FlushPackets(_, _, _, _, _, _)
FlushPackets(queue, i, chosen, out, upOk, inOk) ==
  IF i > Len(queue) THEN [chosen |-> chosen, out |-> out]
  ELSE LET r == FlushPacket(chosen, queue[i], upOk[i], inOk[i])
       IN FlushPackets(queue, i + 1, r.chosen, Append(out, r.out), upOk, inOk)

\* Flush that leaves the packets it visited in the queue
Flush_KeepsQueue(upOk, inOk) ==
  \E r \in {FlushPackets(Process(m_InetToNetwork).visited, 1, m_ChosenExits, <<>>,
                         upOk, inOk)} :
    /\ m_InetToNetwork' = m_InetToNetwork
    /\ m_ChosenExits' = r.chosen
    /\ last' = [Call("Flush") EXCEPT !.out = r.out]
    /\ UNCHANGED <<cfgVars, now, m_NextAddr, m_KeyToIP, m_IPToKey, m_IPActivity,
                   m_SNodeKeys, m_SNodeSessions, m_ActiveExits, m_Paths>>

\* upOk[i], inOk[i]: what the session called for packet i returns. A call
\* through a pointer to a destroyed Endpoint may return either value too.
Flush(upOk, inOk) ==
  \E r \in {FlushPackets(Process(m_InetToNetwork).visited, 1, m_ChosenExits, <<>>,
                         upOk, inOk)} :
    /\ m_InetToNetwork' = Process(m_InetToNetwork).left
    /\ m_ChosenExits' = r.chosen
    /\ last' = [Call("Flush") EXCEPT !.out = r.out]
    /\ UNCHANGED <<cfgVars, now, m_NextAddr, m_KeyToIP, m_IPToKey, m_IPActivity,
                   m_SNodeKeys, m_SNodeSessions, m_ActiveExits, m_Paths>>

\* the results the sessions may give for the queued packets
Verdicts == [1..Len(m_InetToNetwork) -> BOOLEAN]

\* ----------------------------------------------------------- DNS responder
\* a std::string is a sequence of characters
SNodeTLD == <<".", "s", "n", "o", "d", "e">>
InAddrArpa == <<".", "i", "n", "-", "a", "d", "d", "r", ".", "a", "r", "p", "a", ".">>

\* std::string::npos, the greatest size_t. A size_t is written as its
\* representative modulo 2^64 of least absolute value, so that npos is -1 and
\* a difference a - b that wraps around is the negative number a - b.
NPos == 0 - 1

\* str.find(pat): position of the first occurrence, from 0, or npos
Find(str, pat) ==
  LET hits == {i \in 0..(Len(str) - Len(pat)) : SubSeq(str, i + 1, i + Len(pat)) = pat}
  IN IF hits = {} THEN NPos ELSE CHOOSE i \in hits : \A j \in hits : i <= j

\* the local router's key, Router()->pubkey()
LocalKey == NumKeys + 1

\* the keys of the routers a name can stand for
RouterKeys == Keys \cup {LocalKey}

\* the z-base-32 text of a key (one character for the keys of the model)
ZBase32 == <<"y", "b", "n", "d", "r", "f", "g", "8", "e", "j", "k", "m", "c", "p", "q", "x">>
Base32Encode(k) == <<ZBase32[k + 1]>>

\* RouterID::ToString
RouterIDToString(k) == Base32Encode(k) \o SNodeTLD

\* RouterID::FromString: the text before the first ".snode" decoded as a key;
\* NoKey when it returns false
RouterIDFromString(str) ==
  LET pos == Find(str, SNodeTLD)
      text == SubSeq(str, 1, pos)
      keys == {k \in RouterKeys : Base32Encode(k) = text}
  IN IF pos = NPos \/ keys = {} THEN NoKey ELSE CHOOSE k \in keys : TRUE

\* the decimal text of an address
RECURSIVE Decimal(_)
Decimal(n) ==
  LET digit == <<"0", "1", "2", "3", "4", "5", "6", "7", "8", "9">>[(n % 10) + 1]
  IN IF n < 10 THEN <<digit>> ELSE Decimal(n \div 10) \o <<digit>>

\* the name of the PTR record of an address (an address of the model is one
\* number where an IPv4 address is four)
PTRName(ip) == Decimal(ip) \o InAddrArpa

\* llarp::dns::DecodePTR: NoIP when it returns false
DecodePTR(name) ==
  LET ips == {ip \in 0..(Pow2(AddrBits) - 1) : PTRName(ip) = name}
  IN IF ips = {} THEN NoIP ELSE CHOOSE ip \in ips : TRUE

ShouldHookDNSMessage(msg) ==
  IF Len(msg.questions) = 0 THEN FALSE
  ELSE LET q == msg.questions[1]
       IN IF q.qtype = "PTR"
          THEN DecodePTR(q.qname) # NoIP /\ Contains(m_OurRange, DecodePTR(q.qname))
          ELSE IF q.qtype = "A"
          THEN Find(q.qname, SNodeTLD \o <<".">>) = Len(q.qname) - 7
          ELSE FALSE

\* msg.AddAReply(name), msg.AddINReply(ip), msg.AddNXReply()
AReply(name) == [kind |-> "A", name |-> name, ip |-> NoIP]
INReply(ip) == [kind |-> "IN", name |-> <<>>, ip |-> ip]
NXReply == [kind |-> "NX", name |-> <<>>, ip |-> NoIP]

\* the record of a DNS message: its first question, whether it was hooked,
\* the key / address its name stands for and the reply
DNSCall(q, hooked, pk, ip, reply) ==
  [Call("DNS") EXCEPT !.qtype = q.qtype, !.qname = q.qname, !.ok = hooked,
                      !.pk = pk, !.ip = ip, !.reply = reply]

\* HandlePTR without the test of m_SNodeKeys: every mapped address is named
HandlePTR_AnyMapped(q) ==
  LET ip == DecodePTR(q.qname)
  IN /\ last' = DNSCall(q, TRUE, NoKey, ip,
                  IF ip = NoIP THEN NoReply
                  ELSE IF ip = m_IfAddr THEN AReply(RouterIDToString(LocalKey))
                  ELSE IF ip \in DOMAIN m_IPToKey
                  THEN AReply(RouterIDToString(m_IPToKey[ip]))
                  ELSE NXReply)
     /\ UNCHANGED <<cfgVars, m_InetToNetwork, now, m_NextAddr, m_KeyToIP, m_IPToKey,
                    m_IPActivity, m_SNodeKeys, m_SNodeSessions, m_ActiveExits,
                    m_Paths, m_ChosenExits>>

\* the PTR branch of HandleHookedDNSMessage
HandlePTR(q) ==
  LET ip == DecodePTR(q.qname)
  IN /\ last' = DNSCall(q, TRUE, NoKey, ip,
                  IF ip = NoIP THEN NoReply
                  ELSE IF ip = m_IfAddr THEN AReply(RouterIDToString(LocalKey))
                  ELSE IF ip \in DOMAIN m_IPToKey /\ m_IPToKey[ip] \in m_SNodeKeys
                  THEN AReply(RouterIDToString(m_IPToKey[ip]))
                  ELSE NXReply)
     /\ UNCHANGED <<cfgVars, m_InetToNetwork, now, m_NextAddr, m_KeyToIP, m_IPToKey,
                    m_IPActivity, m_SNodeKeys, m_SNodeSessions, m_ActiveExits,
                    m_Paths, m_ChosenExits>>

\* HandleA that does not look at what FromString returned: a name that does
\* not parse leaves r all zero, and the zero key is mapped
HandleA_IgnoresParse(q) ==
  LET r == IF RouterIDFromString(q.qname) = NoKey THEN ZeroKey
           ELSE RouterIDFromString(q.qname)
  IN IF r \notin m_SNodeKeys
     THEN \E g \in {GetIPForIdent(St, r)} :
            /\ ObtainServiceNodeIPWrites(r, g)
            /\ last' = [DNSCall(q, TRUE, RouterIDFromString(q.qname), NoIP,
                                INReply(g.ip)) EXCEPT
                          !.kicked = g.kicked, !.fresh = g.fresh]
            /\ UNCHANGED <<cfgVars, m_InetToNetwork, now, m_Paths, m_ChosenExits>>
     ELSE /\ last' = DNSCall(q, TRUE, RouterIDFromString(q.qname), NoIP,
                       IF r \in DOMAIN m_KeyToIP
                       THEN INReply(m_KeyToIP[r])
                       ELSE NXReply)
          /\ UNCHANGED <<cfgVars, m_InetToNetwork, now, m_NextAddr, m_KeyToIP, m_IPToKey,
                         m_IPActivity, m_SNodeKeys, m_SNodeSessions, m_ActiveExits,
                         m_Paths, m_ChosenExits>>

\* the A branch of HandleHookedDNSMessage
HandleA(q) ==
  LET r == RouterIDFromString(q.qname)
  IN IF r # NoKey /\ r \notin m_SNodeKeys
     THEN \E g \in {GetIPForIdent(St, r)} :
            /\ ObtainServiceNodeIPWrites(r, g)
            /\ last' = [DNSCall(q, TRUE, r, NoIP, INReply(g.ip)) EXCEPT
                          !.kicked = g.kicked, !.fresh = g.fresh]
            /\ UNCHANGED <<cfgVars, m_InetToNetwork, now, m_Paths, m_ChosenExits>>
     ELSE /\ last' = DNSCall(q, TRUE, r, NoIP,
                       IF r # NoKey /\ r \in DOMAIN m_KeyToIP
                       THEN INReply(m_KeyToIP[r])
                       ELSE NXReply)
          /\ UNCHANGED <<cfgVars, m_InetToNetwork, now, m_NextAddr, m_KeyToIP, m_IPToKey,
                         m_IPActivity, m_SNodeKeys, m_SNodeSessions, m_ActiveExits,
                         m_Paths, m_ChosenExits>>

\* msg has a question
HandleHookedDNSMessage(msg) ==
  LET q == msg.questions[1]
  IN IF q.qtype = "PTR" THEN HandlePTR(q)
     ELSE IF q.qtype = "A" THEN HandleA(q)
     ELSE /\ last' = DNSCall(q, TRUE, NoKey, NoIP, NoReply)
          /\ UNCHANGED <<cfgVars, m_InetToNetwork, now, m_NextAddr, m_KeyToIP, m_IPToKey,
                         m_IPActivity, m_SNodeKeys, m_SNodeSessions, m_ActiveExits,
                         m_Paths, m_ChosenExits>>

\* a message whose questions are empty, as the record of the call shows it
NoQuestion == [qtype |-> "", qname |-> <<>>]

\* the resolver receives msg: a message the endpoint hooks is handled by it,
\* any other is forwarded upstream
DNSQuery(msg) ==
  IF ShouldHookDNSMessage(msg)
  THEN HandleHookedDNSMessage(msg)
  ELSE /\ last' = DNSCall(IF Len(msg.questions) = 0 THEN NoQuestion ELSE msg.questions[1],
                          FALSE, NoKey, NoIP, NoReply)
       /\ UNCHANGED <<cfgVars, m_InetToNetwork, now, m_NextAddr, m_KeyToIP, m_IPToKey,
                      m_IPActivity, m_SNodeKeys, m_SNodeSessions, m_ActiveExits,
                      m_Paths, m_ChosenExits>>

\* the question names of the model, each with the root dot the wire format
\* decodes to. Names of hosts: the names of the routers; a name whose base is
\* not z-base-32; a name that holds the suffix twice; a name that holds it in
\* the middle; names without it, of 2 and of 6 characters; the bare suffix.
HostNames ==
  {RouterIDToString(k) \o <<".">> : k \in RouterKeys}
    \cup {<<"v">> \o SNodeTLD \o <<".">>,
          RouterIDToString(1) \o <<".">> \o RouterIDToString(1) \o <<".">>,
          RouterIDToString(1) \o <<".", "c", "o", "m", ".">>,
          <<"a", ".">>,
          <<"a", ".", "c", "o", "m", ".">>,
          SNodeTLD \o <<".">>}

\* names of addresses: those of the range, and one outside it
AddrNames ==
  {PTRName(ip) : ip \in {0} \cup {a \in 0..(Pow2(AddrBits) - 1) : Contains(m_OurRange, a)}}

\* A and PTR questions for the names of their kind, and questions of either
\* type and of another type for a router's name and for an address's
Messages ==
  {[questions |-> <<>>]}
    \cup {[questions |-> <<[qtype |-> "A", qname |-> n]>>] : n \in HostNames}
    \cup {[questions |-> <<[qtype |-> "PTR", qname |-> n]>>] : n \in AddrNames}
    \cup {[questions |-> <<[qtype |-> ty, qname |-> n]>>] :
            ty \in {"A", "PTR", "AAAA"},
            n \in {RouterIDToString(1) \o <<".">>, PTRName(m_HigestAddr)}}

Next ==
  \/ AdvanceTime
  \/ \E pk \in Keys : CallGetIPForIdent(pk)
  \/ \E pk \in Keys : CallKickIdentOffExit(pk)
  \/ \E pk \in Keys, path \in PathIDs, want, prev \in BOOLEAN :
       AllocateNewExit(pk, path, want, prev)
  \/ \E pk \in Keys : ObtainServiceNodeIP(pk)
  \/ \E path \in PathIDs : FindEndpointByPath(path)
  \/ \E pk \in Keys, path \in PathIDs : UpdateEndpointPath(pk, path)
  \/ \E path \in PathIDs : DelEndpointInfo(path)
  \/ \E i \in 1..Len(m_ActiveExits) : RemoveExit(i)
  \/ \E se \in SUBSET (DOMAIN m_SNodeSessions),
        ex \in SUBSET LiveIDs(m_ActiveExits) :
       \E dead \in SUBSET (LiveIDs(m_ActiveExits) \ ex) : Tick(se, ex, dead)
  \/ \E dst \in 0..(Pow2(AddrBits) - 1), loaded \in BOOLEAN : OnInetPacket(dst, loaded)
  \/ \E upOk, inOk \in Verdicts : Flush(upOk, inOk)
  \/ \E msg \in Messages : DNSQuery(msg)

Spec == Init /\ [][Next]_vars

\* the configurations whose range holds at least one client address
InitValid == Init /\ m_HigestAddr > m_IfAddr

\* the address pool and the identity map
NextPool ==
  \/ AdvanceTime
  \/ \E pk \in Keys : CallGetIPForIdent(pk)
  \/ \E pk \in Keys : CallKickIdentOffExit(pk)
  \/ \E pk \in Keys : ObtainServiceNodeIP(pk)

SpecPool == Init /\ [][NextPool]_vars

SpecPoolValid == InitValid /\ [][NextPool]_vars

\* path admission: every call inside one tick of the clock
NextAdmit ==
  \/ \E pk \in Keys : CallKickIdentOffExit(pk)
  \/ \E pk \in Keys, path \in PathIDs, want, prev \in BOOLEAN :
       AllocateNewExit(pk, path, want, prev)

SpecAdmit == Init /\ [][NextAdmit]_vars

SpecAdmitValid == InitValid /\ [][NextAdmit]_vars

\* the registry specifications start from the /30-like range with exit
\* permitted, and admit clients that want internet over client paths
InitReg ==
  /\ Init
  /\ m_PermitExit
  /\ m_HigestAddr - m_IfAddr = 2

\* the path index
NextPaths ==
  \/ \E pk \in Keys : CallKickIdentOffExit(pk)
  \/ \E pk \in Keys, path \in PathIDs : AllocateNewExit(pk, path, TRUE, FALSE)
  \/ \E path \in PathIDs : FindEndpointByPath(path)
  \/ \E pk \in Keys, path \in PathIDs : UpdateEndpointPath(pk, path)
  \/ \E path \in PathIDs : DelEndpointInfo(path)
  \/ \E i \in 1..Len(m_ActiveExits) : RemoveExit(i)

SpecPaths == InitReg /\ [][NextPaths]_vars

\* the tick
NextTick ==
  \/ AdvanceTime
  \/ \E pk \in Keys, path \in PathIDs : AllocateNewExit(pk, path, TRUE, FALSE)
  \/ \E i \in 1..Len(m_ActiveExits) : RemoveExit(i)
  \/ \E se \in SUBSET (DOMAIN m_SNodeSessions),
        ex \in SUBSET LiveIDs(m_ActiveExits) :
       \E dead \in SUBSET (LiveIDs(m_ActiveExits) \ ex) : Tick(se, ex, dead)

SpecTick == InitReg /\ [][NextTick]_vars
\* the packet pump: service nodes resolved, clients admitted (client pk over
\* path pk), ticks, packets for the two client addresses queued and flushed
NextFlush ==
  \/ \E pk \in Keys : ObtainServiceNodeIP(pk)
  \/ \E pk \in Keys : \E path \in PathIDs \cap {pk} :
       AllocateNewExit(pk, path, TRUE, FALSE)
  \/ \E se \in SUBSET (DOMAIN m_SNodeSessions) : Tick(se, {}, {})
  \/ \E dst \in (m_IfAddr + 1)..m_HigestAddr, loaded \in BOOLEAN : OnInetPacket(dst, loaded)
  \/ \E upOk, inOk \in Verdicts : Flush(upOk, inOk)

SpecFlush == InitReg /\ [][NextFlush]_vars

\* the packet pump with the clock running
NextActivity ==
  \/ AdvanceTime
  \/ NextFlush

SpecActivity == InitReg /\ [][NextActivity]_vars

\* the packet pump while sessions go away between two ticks
NextClose ==
  \/ \E pk \in Keys : \E path \in PathIDs \cap {pk} :
       AllocateNewExit(pk, path, TRUE, FALSE)
  \/ \E pk \in Keys : CallKickIdentOffExit(pk)
  \/ \E i \in 1..Len(m_ActiveExits) : RemoveExit(i)
  \/ Tick({}, {}, {})
  \/ \E dst \in (m_IfAddr + 1)..m_HigestAddr : OnInetPacket(dst, TRUE)
  \/ \E upOk, inOk \in Verdicts : Flush(upOk, inOk)

SpecClose == InitReg /\ [][NextClose]_vars
\* the DNS responder: queries, clients admitted (client pk over path pk, which
\* comes from router pk or not), identities kicked
NextDNS ==
  \/ \E msg \in Messages : DNSQuery(msg)
  \/ \E pk \in Keys : \E path \in PathIDs \cap {pk}, prev \in BOOLEAN :
       AllocateNewExit(pk, path, TRUE, prev)
  \/ \E pk \in Keys : CallKickIdentOffExit(pk)

SpecDNS == InitReg /\ [][NextDNS]_vars

\* the service-node sessions: A queries for the routers' names, direct
\* ObtainServiceNodeIP calls, clients admitted (client pk over path pk, which
\* comes from router pk or not), ticks that expire snode sessions
NextSNode ==
  \/ \E k \in Keys :
       DNSQuery([questions |-> <<[qtype |-> "A", qname |-> RouterIDToString(k) \o <<".">>]>>])
  \/ \E pk \in Keys : ObtainServiceNodeIP(pk)
  \/ \E pk \in Keys : \E path \in PathIDs \cap {pk}, prev \in BOOLEAN :
       AllocateNewExit(pk, path, TRUE, prev)
  \/ \E se \in SUBSET (DOMAIN m_SNodeSessions) : Tick(se, {}, {})

SpecSNode == InitReg /\ [][NextSNode]_vars

\* ------------------------------------------------------------------ claims
Sessions(pk) == SessionsOf(m_ActiveExits, pk)
IsAllocation(op) == op \in {"GetIPForIdent", "ObtainServiceNodeIP", "AllocateNewExit"}

\* C1: m_KeyToIP and m_IPToKey are exact inverses of each other: every (k, ip)
\* of m_KeyToIP has m_IPToKey[ip] = k and every (ip, k) of m_IPToKey has
\* m_KeyToIP[k] = ip.
C1_MapsAreInverses ==
  /\ \A k \in DOMAIN m_KeyToIP :
       /\ m_KeyToIP[k] \in DOMAIN m_IPToKey
       /\ m_IPToKey[m_KeyToIP[k]] = k
  /\ \A ip \in DOMAIN m_IPToKey :
       /\ m_IPToKey[ip] \in DOMAIN m_KeyToIP
       /\ m_KeyToIP[m_IPToKey[ip]] = ip

\* C2: every address bound to a remote identity, and every address an
\* allocating call returned, lies in (m_IfAddr, m_HigestAddr], and
\* m_NextAddr <= m_HigestAddr.
C2_AddressesInRange ==
  /\ \A k \in DOMAIN m_KeyToIP :
       m_IfAddr < m_KeyToIP[k] /\ m_KeyToIP[k] <= m_HigestAddr
  /\ IsAllocation(last.op) /\ last.ip # NoIP =>
       m_IfAddr < last.ip /\ last.ip <= m_HigestAddr
  /\ m_NextAddr <= m_HigestAddr

\* C3: GetIPForIdent is idempotent per key. The address a call returns is the
\* one m_KeyToIP holds for the key afterwards; that entry keeps its value for
\* as long as the key stays mapped; and a call for a mapped key returns the
\* entry, allocates nothing (m_NextAddr, both maps and the sessions unchanged,
\* nobody kicked) and only sets m_IPActivity of that address to now.
C3_GetIPForIdentIdempotent ==
  [][/\ \A k \in DOMAIN m_KeyToIP \cap DOMAIN m_KeyToIP' :
          m_KeyToIP'[k] = m_KeyToIP[k]
     /\ last'.op = "GetIPForIdent" =>
          /\ last'.pk \in DOMAIN m_KeyToIP'
          /\ m_KeyToIP'[last'.pk] = last'.ip
     /\ last'.op = "GetIPForIdent" /\ last'.pk \in DOMAIN m_KeyToIP =>
          /\ last'.ip = m_KeyToIP[last'.pk]
          /\ ~last'.fresh
          /\ last'.kicked = NoKey
          /\ m_NextAddr' = m_NextAddr
          /\ m_KeyToIP' = m_KeyToIP
          /\ m_IPToKey' = m_IPToKey
          /\ m_ActiveExits' = m_ActiveExits
          /\ m_IPActivity' = Put(m_IPActivity, last'.ip, now)]_vars

\* a second GetIPForIdent for a key mapped at an earlier time, with the pool
\* exhausted: it refreshed the activity of the key's address
C3_Witness ==
  /\ last.op = "GetIPForIdent"
  /\ ~last.fresh
  /\ now > 0
  /\ m_NextAddr = m_HigestAddr
  /\ Cardinality(DOMAIN m_KeyToIP) = 2
  /\ m_IPActivity[last.ip] = now
  /\ \E ip \in DOMAIN m_IPActivity : m_IPActivity[ip] < now

\* C4: when an address bound to pk is given to another key pk2, pk has been
\* kicked by then: pk has no m_KeyToIP entry, the address does not map to pk
\* and m_ActiveExits holds no session of pk.
C4_EvictionKicksFirst ==
  [][\A pk \in DOMAIN m_KeyToIP : \A pk2 \in DOMAIN m_KeyToIP' \ DOMAIN m_KeyToIP :
       pk2 # pk /\ m_KeyToIP'[pk2] = m_KeyToIP[pk] =>
         /\ pk \notin DOMAIN m_KeyToIP'
         /\ m_KeyToIP[pk] \in DOMAIN m_IPToKey' => m_IPToKey'[m_KeyToIP[pk]] # pk
         /\ SessionsOf(m_ActiveExits', pk) = {}]_vars

\* the address a fresh allocation returns: ++m_NextAddr while
\* m_NextAddr < m_HigestAddr; with the pool exhausted the tracked address of
\* the smallest m_IPActivity, the lowest address among equally old ones, with
\* m_NextAddr left alone
C5_Selection ==
  last'.op \in {"GetIPForIdent", "ObtainServiceNodeIP"} /\ last'.fresh =>
    IF m_NextAddr < m_HigestAddr
    THEN /\ last'.ip = m_NextAddr + 1
         /\ m_NextAddr' = m_NextAddr + 1
         /\ last'.kicked = NoKey
    ELSE /\ m_NextAddr' = m_NextAddr
         /\ DOMAIN m_IPActivity # {} =>
              /\ last'.ip \in DOMAIN m_IPActivity
              /\ \A o \in DOMAIN m_IPActivity :
                   \/ m_IPActivity[last'.ip] < m_IPActivity[o]
                   \/ m_IPActivity[last'.ip] = m_IPActivity[o] /\ last'.ip <= o

\* in a range of one client address, a fresh allocation for a second client
\* takes the one address and the client that held it is no longer mapped
C5_SecondClientEvictsFirst ==
  /\ last'.op \in {"GetIPForIdent", "ObtainServiceNodeIP"}
  /\ last'.fresh
  /\ m_HigestAddr = m_IfAddr + 1
  /\ m_NextAddr = m_HigestAddr
  => /\ last'.ip = m_HigestAddr
     /\ \A first \in DOMAIN m_KeyToIP : first \notin DOMAIN m_KeyToIP'

\* C5: a fresh allocation returns ++m_NextAddr while m_NextAddr < m_HigestAddr;
\* with the pool exhausted it returns the tracked address of the smallest
\* m_IPActivity, the lowest address among equally old ones; so in a range of
\* one client address a second client always evicts the first.
C5_AllocateOldestLowest ==
  [][C5_Selection /\ C5_SecondClientEvictsFirst]_vars

\* an eviction in the range of two client addresses that took the higher
\* address, the lower one having been active later
C5_Witness ==
  /\ last.op \in {"GetIPForIdent", "ObtainServiceNodeIP"}
  /\ last.fresh
  /\ last.kicked \in Keys
  /\ m_HigestAddr = m_IfAddr + 2
  /\ last.ip = m_HigestAddr
  /\ (m_HigestAddr - 1) \in DOMAIN m_IPActivity

\* what AllocateNewExit may write
admitVars == <<m_NextAddr, m_KeyToIP, m_IPToKey, m_IPActivity, m_SNodeKeys,
               m_SNodeSessions, m_ActiveExits, m_Paths, m_ChosenExits>>

\* C6: with m_PermitExit false, AllocateNewExit(pk, path, TRUE) returns false
\* and changes nothing, and AllocateNewExit(pk, path, FALSE) returns true.
C6_PermitExitGate ==
  [][last'.op = "AllocateNewExit" /\ ~m_PermitExit =>
       IF last'.want
       THEN ~last'.ok /\ UNCHANGED <<cfgVars, m_InetToNetwork, now, admitVars>>
       ELSE last'.ok /\ SessionsOf(m_ActiveExits', last'.pk) # {}]_vars

\* a refused request for internet on an endpoint that has admitted an
\* inbound-only session
C6_Witness ==
  /\ ~m_PermitExit
  /\ last.op = "AllocateNewExit"
  /\ last.want
  /\ ~last.ok
  /\ m_ActiveExits # <<>>

\* the sessions of exits, as a set, without or with their place in the iteration
SessionSet(exits) == {exits[i] : i \in 1..Len(exits)}

\* C7: an AllocateNewExit(pk, path, want) that passes the gate returns true
\* and leaves pk mapped to the returned address, one more session of pk in
\* m_ActiveExits (carrying path, that address and rewriteIP = ~want),
\* m_Paths[path] = pk, and pk added to m_SNodeKeys exactly when the previous
\* hop of path is router pk.
C7_AdmissionEffects ==
  [][last'.op = "AllocateNewExit" /\ ~(last'.want /\ ~m_PermitExit) =>
       LET pk == last'.pk
           new == {e \in SessionSet(m_ActiveExits') : e.id = last'.ep}
       IN /\ last'.ok
          /\ pk \in DOMAIN m_KeyToIP'
          /\ m_KeyToIP'[pk] = last'.ip
          /\ Cardinality(SessionsOf(m_ActiveExits', pk))
               = Cardinality(SessionsOf(m_ActiveExits, pk)) + 1
          /\ \E e \in new :
               /\ new = {e}
               /\ e.pk = pk
               /\ e.path = last'.path
               /\ e.ip = last'.ip
               /\ e.rewriteIP = ~last'.want
               /\ SessionSet(m_ActiveExits') \ {e} \subseteq SessionSet(m_ActiveExits)
          /\ m_Paths' = Put(m_Paths, last'.path, pk)
          /\ m_SNodeKeys' = IF last'.prev THEN m_SNodeKeys \cup {pk} ELSE m_SNodeKeys]_vars

\* a second session of one key, on another path, admitted inbound-only from a
\* path that does not come from router pk
C7_Witness ==
  /\ last.op = "AllocateNewExit"
  /\ last.ok
  /\ ~last.want
  /\ ~last.prev
  /\ ~last.fresh
  /\ Cardinality(Sessions(last.pk)) = 2
  /\ \E i, j \in Sessions(last.pk) : m_ActiveExits[i].path # m_ActiveExits[j].path
  /\ last.pk \notin m_SNodeKeys

\* C8: UpdateEndpointPath(pk, path) inserts path -> pk and returns true only
\* when path is not in m_Paths; for a known path it returns false and changes
\* nothing.
C8_UpdateEndpointPathRefuses ==
  [][last'.op = "UpdateEndpointPath" =>
       /\ UNCHANGED <<cfgVars, m_InetToNetwork, now, m_NextAddr, m_KeyToIP, m_IPToKey, m_IPActivity,
                      m_SNodeKeys, m_SNodeSessions, m_ActiveExits, m_ChosenExits>>
       /\ IF last'.path \in DOMAIN m_Paths
          THEN ~last'.ok /\ m_Paths' = m_Paths
          ELSE last'.ok /\ m_Paths' = Put(m_Paths, last'.path, last'.pk)]_vars

\* a refused update: the path belongs to another key and still does
C8_Witness ==
  /\ last.op = "UpdateEndpointPath"
  /\ ~last.ok
  /\ last.path \in DOMAIN m_Paths
  /\ m_Paths[last.path] # last.pk

\* C9: FindEndpointByPath(path) returns null when path is not in m_Paths or
\* m_ActiveExits holds no session of m_Paths[path]; otherwise a session that
\* is in m_ActiveExits and whose key is m_Paths[path].
C9_FindEndpointByPath ==
  last.op = "FindEndpointByPath" =>
    IF last.path \notin DOMAIN m_Paths THEN last.ep = NullEp
    ELSE IF Sessions(m_Paths[last.path]) = {} THEN last.ep = NullEp
    ELSE /\ last.ep \in LiveIDs(m_ActiveExits)
         /\ ById(m_ActiveExits, last.ep).pk = m_Paths[last.path]

\* a lookup that found a session while another key has a session too
C9_Witness ==
  /\ last.op = "FindEndpointByPath"
  /\ last.ep # NullEp
  /\ \E i \in 1..Len(m_ActiveExits) : m_ActiveExits[i].pk # m_Paths[last.path]

\* the sessions of k that did not look dead to the last Tick
Alive(k) == {i \in Sessions(k) : m_ActiveExits[i].id \notin last.dead}

\* C10: right after Tick, a key with a session that does not look dead has as
\* its chosen exit one of its sessions that does not look dead and has the
\* greatest createdAt among those; a key without such a session has none.
C10_ChosenIsNewestAlive ==
  last.op = "Tick" =>
    \A k \in Keys :
      IF Alive(k) = {}
      THEN k \notin DOMAIN m_ChosenExits
      ELSE /\ k \in DOMAIN m_ChosenExits
           /\ \E i \in Alive(k) :
                /\ m_ChosenExits[k] = m_ActiveExits[i].id
                /\ \A j \in Alive(k) :
                     m_ActiveExits[j].createdAt <= m_ActiveExits[i].createdAt

\* a Tick over two sessions of one key, the newer one first in the iteration
\* and both alive
C10_Witness ==
  /\ last.op = "Tick"
  /\ last.dead = {}
  /\ Len(m_ActiveExits) = 2
  /\ m_ActiveExits[1].pk = m_ActiveExits[2].pk
  /\ m_ActiveExits[1].createdAt > m_ActiveExits[2].createdAt
  /\ m_ChosenExits[m_ActiveExits[1].pk] = m_ActiveExits[1].id

\* the Endpoint * that m_ChosenExits holds for pk, null without an entry
ChosenFor(pk) == IF pk \in DOMAIN m_ChosenExits THEN m_ChosenExits[pk] ELSE NullEp

\* C11: Flush handles each drained packet with exactly one outcome. A packet
\* whose dst has no m_IPToKey entry is dropped; a packet whose key is in
\* m_SNodeKeys and has an m_SNodeSessions entry is offered to that session and,
\* when the session takes it, goes nowhere else; in every other case it is
\* offered to m_ChosenExits[key], and dropped when that is null or the session
\* refuses. No packet is taken by both a snode session and an exit session.
C11_FlushOneOutcome ==
  [][last'.op = "Flush" =>
       /\ Len(last'.out) = Len(m_InetToNetwork)
       /\ \A i \in 1..Len(m_InetToNetwork) :
            LET o == last'.out[i]
                dst == m_InetToNetwork[i]
            IN /\ o.dst = dst
               /\ ~(o.upOk /\ o.inOk)
               /\ o.upOk => o.upCalled
               /\ o.inOk => o.inCalled
               /\ IF dst \notin DOMAIN m_IPToKey
                  THEN ~o.upCalled /\ ~o.inCalled
                  ELSE LET pk == m_IPToKey[dst]
                       IN /\ o.pk = pk
                          /\ o.upCalled <=>
                               (pk \in m_SNodeKeys /\ pk \in DOMAIN m_SNodeSessions)
                          /\ IF o.upOk
                             THEN ~o.inCalled
                             ELSE /\ o.ep = ChosenFor(pk)
                                  /\ o.inCalled <=> (o.ep # NullEp)]_vars

\* a flush of two packets: the snode session refused the first, which the
\* chosen exit of the same key then took, and took the second
C11_Witness ==
  /\ last.op = "Flush"
  /\ Len(last.out) = 2
  /\ last.out[1].upCalled /\ ~last.out[1].upOk /\ last.out[1].inOk
  /\ last.out[2].upOk
  /\ last.out[1].pk = last.out[2].pk

C20_ChosenExitsAreLive ==
  /\ \A k \in DOMAIN m_ChosenExits :
       m_ChosenExits[k] # NullEp =>
         \E i \in Sessions(k) : m_ActiveExits[i].id = m_ChosenExits[k]
  /\ last.op = "Flush" =>
       \A i \in 1..Len(last.out) :
         last.out[i].inCalled =>
           \E j \in Sessions(last.out[i].pk) : m_ActiveExits[j].id = last.out[i].ep

\* the variables of the endpoint, the record of the last call left out
stateVars == <<cfgVars, now, m_NextAddr, m_KeyToIP, m_IPToKey, m_IPActivity,
               m_SNodeKeys, m_SNodeSessions, m_ActiveExits, m_Paths, m_ChosenExits,
               m_InetToNetwork>>

\* str ends in ".snode" (before the root dot)
EndsInSNode(str) ==
  /\ Len(str) >= 7
  /\ SubSeq(str, Len(str) - 6, Len(str)) = SNodeTLD \o <<".">>

\* C13: a DNS message is claimed if and only if its first question is a PTR
\* whose name decodes to an address inside m_OurRange or an A whose name ends
\* in the .snode suffix, whatever the length of the name and however often the
\* suffix occurs in it; every other message is forwarded without a reply.
C13_AuthorityPredicate ==
  last.op = "DNS" =>
    /\ last.ok <=>
         \/ /\ last.qtype = "PTR"
            /\ DecodePTR(last.qname) # NoIP
            /\ Contains(m_OurRange, DecodePTR(last.qname))
         \/ /\ last.qtype = "A"
            /\ EndsInSNode(last.qname)
    /\ ~last.ok => last.reply = NoReply

\* C14: a claimed PTR query for m_IfAddr is answered with the local router's
\* name; for another address the reply names key k if and only if
\* m_IPToKey[ip] = k and k is in m_SNodeKeys, and is NXDOMAIN otherwise; the
\* query changes no state of the endpoint.
C14_PTRAnswer ==
  [][last'.op = "DNS" /\ last'.ok /\ last'.qtype = "PTR" =>
       LET ip == DecodePTR(last'.qname)
           named == ip \in DOMAIN m_IPToKey /\ m_IPToKey[ip] \in m_SNodeKeys
       IN /\ UNCHANGED stateVars
          /\ IF ip = m_IfAddr
             THEN last'.reply = AReply(RouterIDToString(LocalKey))
             ELSE /\ last'.reply.kind \in {"A", "NX"}
                  /\ last'.reply.kind = "NX" <=> ~named
                  /\ \A k \in RouterKeys \cup {ZeroKey} :
                       last'.reply = AReply(RouterIDToString(k)) <=>
                         (named /\ m_IPToKey[ip] = k)]_vars

\* a PTR query answered with the name of a service node while another address
\* is mapped to a key that is not a service node
C14_Witness ==
  /\ last.op = "DNS"
  /\ last.qtype = "PTR"
  /\ last.reply.kind = "A"
  /\ last.ip # m_IfAddr
  /\ \E ip \in DOMAIN m_IPToKey : m_IPToKey[ip] \notin m_SNodeKeys

\* C15: an A query for <pk>.snode with a parseable pk that is not in
\* m_SNodeKeys replies with the address m_KeyToIP holds for pk afterwards, adds
\* pk to m_SNodeKeys and leaves a session for pk in m_SNodeSessions; the same
\* query right after an answered one gets the same reply and makes no session.
C15_AQueryProvisions ==
  [][/\ last'.op = "DNS" /\ last'.ok /\ last'.qtype = "A"
        /\ last'.pk # NoKey /\ last'.pk \notin m_SNodeKeys =>
          /\ last'.reply.kind = "IN"
          /\ last'.pk \in DOMAIN m_KeyToIP'
          /\ last'.reply.ip = m_KeyToIP'[last'.pk]
          /\ last'.pk \in m_SNodeKeys'
          /\ last'.pk \in DOMAIN m_SNodeSessions'
          /\ m_SNodeSessions'[last'.pk].pk = last'.pk
     /\ last.op = "DNS" /\ last.reply.kind = "IN" /\ last'.op = "DNS"
        /\ last'.qtype = last.qtype /\ last'.qname = last.qname =>
          /\ last'.reply = last.reply
          /\ m_SNodeSessions' = m_SNodeSessions
          /\ m_SNodeKeys' = m_SNodeKeys]_vars

\* an A query for a second service node, answered with a new mapping while
\* the first service node keeps its session
C15_Witness ==
  /\ last.op = "DNS"
  /\ last.reply.kind = "IN"
  /\ last.fresh
  /\ last.pk \in DOMAIN m_SNodeSessions
  /\ Cardinality(DOMAIN m_SNodeSessions) = 2
  /\ m_KeyToIP[last.pk] = last.reply.ip

\* C16: an A query for <pk>.snode whose pk parses and is in m_SNodeKeys is
\* answered with the address m_KeyToIP holds for pk, never with NXDOMAIN.
C16_KnownSNodeAnswered ==
  [][last'.op = "DNS" /\ last'.ok /\ last'.qtype = "A"
       /\ last'.pk # NoKey /\ last'.pk \in m_SNodeKeys =>
         /\ last'.reply.kind = "IN"
         /\ last'.pk \in DOMAIN m_KeyToIP
         /\ last'.reply.ip = m_KeyToIP[last'.pk]]_vars

\* C17: an A query for a .snode name whose base does not parse as a key is
\* answered NXDOMAIN and changes nothing: m_KeyToIP, m_IPToKey, m_IPActivity,
\* m_NextAddr, m_SNodeKeys and m_SNodeSessions keep their values.
C17_UnparseableIsNX ==
  [][last'.op = "DNS" /\ last'.ok /\ last'.qtype = "A"
       /\ RouterIDFromString(last'.qname) = NoKey =>
         /\ last'.reply = NXReply
         /\ UNCHANGED stateVars]_vars

\* an A query for a name that ends in .snode and does not parse, answered
\* NXDOMAIN by an endpoint that has a service node mapped
C17_Witness ==
  /\ last.op = "DNS"
  /\ last.ok
  /\ last.qtype = "A"
  /\ EndsInSNode(last.qname)
  /\ Len(last.qname) > 7
  /\ last.pk = NoKey
  /\ last.reply = NXReply
  /\ m_SNodeKeys # {}

\* C18: when a PTR query for m_IfAddr has been answered with a name, the A
\* query for that name is answered with m_IfAddr.
C18_GatewayRoundTrip ==
  [][/\ last.op = "DNS" /\ last.qtype = "PTR" /\ last.ip = m_IfAddr
     /\ last.reply.kind = "A"
     /\ last'.op = "DNS" /\ last'.qtype = "A"
     /\ last'.qname = last.reply.name \o <<".">>
     => last'.reply = INReply(m_IfAddr)]_vars

\* C19: KickIdentOffExit(pk) removes pk's m_KeyToIP entry, the m_IPToKey entry
\* of pk's address and every session of pk, and leaves m_SNodeKeys,
\* m_SNodeSessions, m_NextAddr and the mappings and sessions of every other
\* key as they were; for a key without a mapping it changes nothing.
C19_KickIdentFrame ==
  [][last'.op = "KickIdentOffExit" =>
       LET pk == last'.pk
       IN /\ pk \notin DOMAIN m_KeyToIP'
          /\ pk \in DOMAIN m_KeyToIP => m_KeyToIP[pk] \notin DOMAIN m_IPToKey'
          /\ SessionsOf(m_ActiveExits', pk) = {}
          /\ UNCHANGED <<m_SNodeKeys, m_SNodeSessions, m_NextAddr>>
          /\ m_KeyToIP' = Erase(m_KeyToIP, pk)
          /\ \A ip \in DOMAIN m_IPToKey :
               (pk \in DOMAIN m_KeyToIP => ip # m_KeyToIP[pk]) =>
                 ip \in DOMAIN m_IPToKey' /\ m_IPToKey'[ip] = m_IPToKey[ip]
          /\ DOMAIN m_IPToKey' \subseteq DOMAIN m_IPToKey
          /\ m_ActiveExits' = SelectSeq(m_ActiveExits, LAMBDA e : e.pk # pk)
          /\ pk \notin DOMAIN m_KeyToIP => UNCHANGED stateVars]_vars

\* a kick of a key that had a mapping and a session, while another key keeps
\* its mapping and its session
C19_Witness ==
  /\ last.op = "KickIdentOffExit"
  /\ last.pk \in m_SNodeKeys
  /\ m_ActiveExits # <<>>
  /\ m_KeyToIP # EmptyMap
  /\ m_IPToKey # EmptyMap
  /\ Cardinality(DOMAIN m_IPActivity) = 2

\* C21: each path id belongs to at most one session: no two sessions of
\* m_ActiveExits carry the same path, also after AllocateNewExit was called
\* with a path that is registered already, and m_Paths[path] is the key of
\* the session that carries path.
C21_OneSessionPerPath ==
  /\ \A i, j \in 1..Len(m_ActiveExits) :
       i # j => m_ActiveExits[i].path # m_ActiveExits[j].path
  /\ \A i \in 1..Len(m_ActiveExits) :
       /\ m_ActiveExits[i].path \in DOMAIN m_Paths
       /\ m_Paths[m_ActiveExits[i].path] = m_ActiveExits[i].pk

\* C22: m_SNodeKeys is a subset of the keys of m_KeyToIP: every key marked as
\* a service node has an address, also after an eviction or a kick of the key.
C22_SNodeKeysMapped == m_SNodeKeys \subseteq DOMAIN m_KeyToIP

\* C23: after every step the addresses tracked in m_IPActivity are exactly the
\* addresses bound in m_KeyToIP (no entry survives for the address of a kicked
\* identity, every bound address has an entry), and the time stored for an
\* address never decreases.
C23_ActivityTracksBindings ==
  [][/\ DOMAIN m_IPActivity' = {m_KeyToIP'[k] : k \in DOMAIN m_KeyToIP'}
     /\ \A ip \in DOMAIN m_IPActivity \cap DOMAIN m_IPActivity' :
          m_IPActivity'[ip] >= m_IPActivity[ip]]_vars

\* C24: whenever Flush hands a packet for dst to a session (the snode session
\* or the chosen exit took it), m_IPActivity[dst] is the current time
\* afterwards, which is what makes the eviction of AllocateNewAddress spare
\* the keys that keep receiving packets.
C24_FlushMarksActive ==
  [][last'.op = "Flush" =>
       \A i \in 1..Len(last'.out) :
         last'.out[i].upOk \/ last'.out[i].inOk =>
           /\ last'.out[i].dst \in DOMAIN m_IPActivity'
           /\ m_IPActivity'[last'.out[i].dst] = now]_vars

\* every session in the registry: exit sessions by cell, snode sessions by key
AllSessions(exits, snodes) ==
  {<<"exit", exits[i].id>> : i \in 1..Len(exits)} \cup {<<"snode", k>> : k \in DOMAIN snodes}

\* C25: sessions are removed only at tick: a step that takes a session out of
\* m_ActiveExits or m_SNodeSessions is a Tick, and after a Tick every session
\* still in the registry has been ticked
C25_RemovedOnlyAtTick ==
  [][/\ AllSessions(m_ActiveExits, m_SNodeSessions)
          \ AllSessions(m_ActiveExits', m_SNodeSessions') # {}
        => last'.op = "Tick"
     /\ last'.op = "Tick"
        => AllSessions(m_ActiveExits', m_SNodeSessions') \subseteq last'.ticked]_vars

\* C26: a range without a client address (m_HigestAddr = m_IfAddr) is never
\* the configuration of a running endpoint, so no call allocates from an
\* empty pool, and every address a call allocates is in the configured range
C26_DegenerateRangeRejected ==
  [][IsAllocation(last'.op) /\ last'.fresh =>
       /\ m_HigestAddr > m_IfAddr
       /\ Contains(m_OurRange, last'.ip)]_vars

\* C27: when the key of a path has several sessions and one of them was
\* admitted over that path, FindEndpointByPath(path) returns a session whose
\* own path is the path asked for, not another session of the same key
C27_FindReturnsSessionOfPath ==
  /\ last.op = "FindEndpointByPath"
  /\ last.path \in DOMAIN m_Paths
  /\ \E i \in Sessions(m_Paths[last.path]) : m_ActiveExits[i].path = last.path
  => /\ last.ep \in LiveIDs(m_ActiveExits)
     /\ ById(m_ActiveExits, last.ep).path = last.path

\* C28: m_SNodeKeys never loses a member; the keys of m_SNodeSessions are
\* among m_SNodeKeys; a session held for a key stays the same session; and a
\* step that puts a session for a key into m_SNodeSessions is the
\* ObtainServiceNodeIP (called directly or by an A query) that adds the key to
\* m_SNodeKeys, so a key already marked never gets a session
C28_SNodeSessionOnce ==
  [][/\ m_SNodeKeys \subseteq m_SNodeKeys'
     /\ DOMAIN m_SNodeSessions' \subseteq m_SNodeKeys'
     /\ \A k \in DOMAIN m_SNodeSessions' :
          IF k \in DOMAIN m_SNodeSessions
          THEN m_SNodeSessions'[k] = m_SNodeSessions[k]
          ELSE /\ k \notin m_SNodeKeys
               /\ last'.op \in {"ObtainServiceNodeIP", "DNS"}
               /\ last'.pk = k]_vars

\* an A query answered for a service node whose session a tick removed: the
\* key is marked and mapped, has no exit session and no snode session, and
\* the other service node still has its session
C28_Witness ==
  /\ last.op = "DNS"
  /\ last.qtype = "A"
  /\ last.reply.kind = "IN"
  /\ last.pk \in m_SNodeKeys
  /\ last.pk \notin DOMAIN m_SNodeSessions
  /\ Sessions(last.pk) = {}
  /\ DOMAIN m_SNodeSessions # {}
====
